---- MODULE Spec2Model ----
(***************************************************************************)
(* A model of pyro/ops/studentt.py: the Gamma and GaussianGamma density    *)
(* algebra.  Tensors hold exact rationals; log() is kept symbolic as a     *)
(* linear form over log(pi) and the logs of primes; the entries of a       *)
(* Cholesky factor are signed square roots of rationals.  A tensor carries *)
(* a batch shape of rank 0 or 1 before its event dimensions.               *)
(***************************************************************************)
EXTENDS Integers, Sequences, FiniteSets, TLC

VARIABLES g, op, recv, args, out, fuel

vars == <<g, op, recv, args, out, fuel>>

(***************************************************************************)
(* Bounds of the model.                                                    *)
(***************************************************************************)
MaxDim == 2
MaxSteps == 2

(***************************************************************************)
(* Exact rationals <<numerator, denominator>>, denominator > 0, reduced.   *)
(***************************************************************************)
Abs(a) == IF a < 0 THEN -a ELSE a

RECURSIVE Gcd(_, _)
Gcd(a, b) == IF b = 0 THEN a ELSE Gcd(b, a % b)

Rat(n, d) ==
    LET sg == IF d < 0 THEN -1 ELSE 1
        k  == Gcd(Abs(n), Abs(d))
    IN  <<(sg * n) \div k, (sg * d) \div k>>

Q(n) == <<n, 1>>
Zero == Q(0)
One == Q(1)
Half == <<1, 2>>
RAdd(a, b) == Rat(a[1] * b[2] + b[1] * a[2], a[2] * b[2])
RNeg(a) == <<-a[1], a[2]>>
RSub(a, b) == RAdd(a, RNeg(b))
RMul(a, b) == Rat(a[1] * b[1], a[2] * b[2])
RDiv(a, b) == Rat(a[1] * b[2], a[2] * b[1])
RPos(a) == a[1] > 0
RSign(a) == IF a[1] > 0 THEN 1 ELSE IF a[1] < 0 THEN -1 ELSE 0

RECURSIVE RSum(_)
RSum(v) == IF v = <<>> THEN Zero ELSE RAdd(v[1], RSum(Tail(v)))

\* the exact root of a perfect square
ISqrt(n) == CHOOSE r \in 0..n : r * r = n
RSqrt(a) == <<ISqrt(a[1]), ISqrt(a[2])>>

(***************************************************************************)
(* Reals with logarithms: q + pi*log(pi) + SUM_p lg[p]*log(p), p prime.    *)
(* The logs of distinct primes and log(pi) are linearly independent over   *)
(* the rationals, so two forms are equal iff the reals are.                *)
(***************************************************************************)
NoLogs == [p \in {} |-> Zero]
Form(q) == [q |-> q, pi |-> Zero, lg |-> NoLogs]

LgAt(f, p) == IF p \in DOMAIN f THEN f[p] ELSE Zero

FAdd(a, b) ==
    [q  |-> RAdd(a.q, b.q),
     pi |-> RAdd(a.pi, b.pi),
     lg |-> [p \in {x \in (DOMAIN a.lg) \cup (DOMAIN b.lg) :
                      RAdd(LgAt(a.lg, x), LgAt(b.lg, x)) # Zero}
             |-> RAdd(LgAt(a.lg, p), LgAt(b.lg, p))]]

FScale(r, a) ==
    [q  |-> RMul(r, a.q),
     pi |-> RMul(r, a.pi),
     lg |-> [p \in {x \in DOMAIN a.lg : r # Zero} |-> RMul(r, a.lg[p])]]

FNeg(a) == FScale(Q(-1), a)
FSub(a, b) == FAdd(a, FNeg(b))

RECURSIVE FSum(_)
FSum(v) == IF v = <<>> THEN Form(Zero) ELSE FAdd(v[1], FSum(Tail(v)))

IsPrime(p) == p > 1 /\ \A d \in 2..(p - 1) : p % d # 0
PrimeFactors(n) == {p \in 2..n : IsPrime(p) /\ n % p = 0}

RECURSIVE Val(_, _)
Val(p, n) == IF n % p = 0 THEN 1 + Val(p, n \div p) ELSE 0

\* log of a positive rational
Log(a) ==
    [q  |-> Zero,
     pi |-> Zero,
     lg |-> [p \in PrimeFactors(a[1]) \cup PrimeFactors(a[2])
             |-> Q(Val(p, a[1]) - Val(p, a[2]))]]

\* math.log(2 * math.pi)
Log2Pi == [q |-> Zero, pi |-> One, lg |-> [p \in {2} |-> One]]

(***************************************************************************)
(* Signed square roots of rationals: sg * sqrt(sq).                        *)
(***************************************************************************)
Root(sg, sq) == [sg |-> IF sq = Zero THEN 0 ELSE sg, sq |-> sq]
RootOf(a) == Root(RSign(a), RMul(a, a))
Sqrt(a) == Root(1, a)
RootDiv(a, b) == Root(a.sg * b.sg, RDiv(a.sq, b.sq))
\* the product of two roots whose product is rational
RootMul(a, b) ==
    LET r == RSqrt(RMul(a.sq, b.sq))
    IN  IF a.sg * b.sg < 0 THEN RNeg(r) ELSE IF a.sg * b.sg = 0 THEN Zero ELSE r
RootPow2(a) == a.sq
RootLog(a) == FScale(Half, Log(a.sq))

(***************************************************************************)
(* Event-level values: a vector is a sequence of rationals, a matrix is    *)
(* [r, c, m] with m its sequence of r rows of length c (the shape is kept  *)
(* so that an empty matrix still has a column count).                      *)
(***************************************************************************)
Mat(r, c, m) == [r |-> r, c |-> c, m |-> m]
At(M, i, j) == M.m[i][j]

VecAdd(a, b) == [i \in 1..Len(a) |-> RAdd(a[i], b[i])]
VecSub(a, b) == [i \in 1..Len(a) |-> RSub(a[i], b[i])]
VecMul(a, b) == [i \in 1..Len(a) |-> RMul(a[i], b[i])]
VecScale(k, a) == [i \in 1..Len(a) |-> RMul(k, a[i])]
MatAdd(A, B) == Mat(A.r, A.c, [i \in 1..A.r |-> [j \in 1..A.c |-> RAdd(At(A, i, j), At(B, i, j))]])
\* M.matmul(v.unsqueeze(-1)).squeeze(-1), defined when M.c = Len(v)
MatVec(M, v) == [i \in 1..M.r |-> RSum([j \in 1..M.c |-> RMul(At(M, i, j), v[j])])]

\* Python's slice(start, stop) on an axis of length n, as the selected
\* 1-based positions; <<>> stands for None and <<k>> for the integer k.
SliceBound(b, n, none) ==
    IF b = <<>> THEN none
    ELSE LET k == IF b[1] < 0 THEN b[1] + n ELSE b[1]
         IN  IF k < 0 THEN 0 ELSE IF k > n THEN n ELSE k
Slice(start, stop, n) ==
    LET lo == SliceBound(start, n, 0)
        hi == SliceBound(stop, n, n)
    IN  [i \in 1..(IF hi > lo THEN hi - lo ELSE 0) |-> lo + i]

VecTake(v, idx) == [i \in 1..Len(idx) |-> v[idx[i]]]
MatTake(M, rows, cols) ==
    Mat(Len(rows), Len(cols), [i \in 1..Len(rows) |-> [j \in 1..Len(cols) |-> At(M, rows[i], cols[j])]])
All(n) == [i \in 1..n |-> i]

\* torch.nn.functional.pad with zeros on the last axis / the last two axes
PadVec(v, left, right) ==
    [i \in 1..(left + Len(v) + right) |->
        IF i > left /\ i <= left + Len(v) THEN v[i - left] ELSE Zero]
PadMat(M, left, right, top, bottom) ==
    Mat(top + M.r + bottom, left + M.c + right,
        [i \in 1..(top + M.r + bottom) |-> [j \in 1..(left + M.c + right) |->
            IF i > top /\ i <= top + M.r /\ j > left /\ j <= left + M.c
            THEN At(M, i - top, j - left) ELSE Zero]])

(***************************************************************************)
(* Batched tensors: [bs, at], bs the batch shape (<<>> or <<b>>, b >= 1)   *)
(* and at the sequence of the batch's event-level values.                  *)
(***************************************************************************)
Numel(bs) == IF bs = <<>> THEN 1 ELSE bs[1]
T(bs, x) == [bs |-> bs, at |-> [i \in 1..Numel(bs) |-> x]]
T0(x) == T(<<>>, x)

\* the broadcast of two batch shapes of rank 0 or 1 that are compatible
broadcast_shape(a, b) ==
    IF a = <<>> THEN b ELSE IF b = <<>> THEN a ELSE IF a[1] = 1 THEN b ELSE a
Pick(t, i) == t.at[IF Len(t.at) = 1 THEN 1 ELSE i]

Map1(F(_), t) == [bs |-> t.bs, at |-> [i \in 1..Len(t.at) |-> F(t.at[i])]]
Map2(F(_, _), a, b) ==
    LET bs == broadcast_shape(a.bs, b.bs)
    IN  [bs |-> bs, at |-> [i \in 1..Numel(bs) |-> F(Pick(a, i), Pick(b, i))]]

VecShape(t) == t.bs \o <<Len(t.at[1])>>
MatShape(t) == t.bs \o <<t.at[1].r, t.at[1].c>>
Last(sh, k) == SubSeq(sh, Len(sh) - k + 1, Len(sh))

\* Tensor.expand(shape) on the batch axes
Expandable(bs, shape) ==
    Len(shape) >= Len(bs) /\ (bs = <<>> \/ bs[1] = 1 \/ bs = shape)
TensorExpand(t, shape) == [bs |-> shape, at |-> [i \in 1..Numel(shape) |-> Pick(t, i)]]

\* Tensor[index] on the batch axes, index a tuple of integers
Indexable(bs, index) ==
    Len(index) <= Len(bs) /\ (index # <<>> => index[1] >= -bs[1] /\ index[1] < bs[1])
TensorIndex(t, index) ==
    IF index = <<>> THEN t
    ELSE [bs |-> <<>>,
          at |-> <<t.at[(IF index[1] < 0 THEN index[1] + t.bs[1] ELSE index[1]) + 1]>>]

(***************************************************************************)
(* Results of a call: a value of some kind, or the exception raised.       *)
(***************************************************************************)
Ok(kind, v) == [kind |-> kind, v |-> v]
Raise(exc) == [kind |-> exc, v |-> <<>>]
IsGG(o) == o.kind = "GaussianGamma"

(***************************************************************************)
(* class Gamma                                                             *)
(***************************************************************************)
Gamma(log_normalizer, alpha, beta) ==
    [log_normalizer |-> log_normalizer, alpha |-> alpha, beta |-> beta]

\* self.log_normalizer + (self.alpha - 1) * s.log() - self.beta * s
Gamma_log_density(self, s) ==
    LET a1 == Map1(LAMBDA a : RSub(a, One), self.alpha)
        t1 == Map2(FScale, a1, Map1(Log, s))
        t2 == Map1(Form, Map2(RMul, self.beta, s))
    IN  Map2(FSub, Map2(FAdd, self.log_normalizer, t1), t2)

(***************************************************************************)
(* class GaussianGamma                                                     *)
(***************************************************************************)
GaussianGamma(log_normalizer, info_vec, precision, alpha, beta) ==
    IF /\ Len(VecShape(info_vec)) >= 1
       /\ Len(MatShape(precision)) >= 2
       /\ Last(MatShape(precision), 2) = Last(VecShape(info_vec), 1) \o Last(VecShape(info_vec), 1)
    THEN Ok("GaussianGamma",
            [log_normalizer |-> log_normalizer, info_vec |-> info_vec,
             precision |-> precision, alpha |-> alpha, beta |-> beta])
    ELSE Raise("AssertionError")

dim(self) == Len(self.info_vec.at[1])

batch_shape(self) ==
    broadcast_shape(self.log_normalizer.bs,
        broadcast_shape(self.info_vec.bs,
            broadcast_shape(self.precision.bs,
                broadcast_shape(self.alpha.bs, self.beta.bs))))

expand(self, shape) ==
    IF /\ Expandable(self.log_normalizer.bs, shape)
       /\ Expandable(self.info_vec.bs, shape)
       /\ Expandable(self.precision.bs, shape)
       /\ Expandable(self.alpha.bs, shape)
       /\ Expandable(self.beta.bs, shape)
    THEN GaussianGamma(TensorExpand(self.log_normalizer, shape), TensorExpand(self.info_vec, shape),
                       TensorExpand(self.precision, shape), TensorExpand(self.alpha, shape),
                       TensorExpand(self.beta, shape))
    ELSE Raise("RuntimeError")

getitem(self, index) ==
    IF /\ Indexable(self.log_normalizer.bs, index)
       /\ Indexable(self.info_vec.bs, index)
       /\ Indexable(self.precision.bs, index)
       /\ Indexable(self.alpha.bs, index)
       /\ Indexable(self.beta.bs, index)
    THEN GaussianGamma(TensorIndex(self.log_normalizer, index), TensorIndex(self.info_vec, index),
                       TensorIndex(self.precision, index), TensorIndex(self.alpha, index),
                       TensorIndex(self.beta, index))
    ELSE Raise("IndexError")

\* torch.cat along batch axis 0: every part needs that axis, and the parts'
\* event shapes must agree
RECURSIVE Concat(_)
Concat(ss) == IF ss = <<>> THEN <<>> ELSE ss[1] \o Concat(Tail(ss))
TensorCat(ts) ==
    [bs |-> <<Len(Concat([i \in 1..Len(ts) |-> ts[i].at]))>>,
     at |-> Concat([i \in 1..Len(ts) |-> ts[i].at])]
Catable(ts, EventShape(_)) ==
    \A i \in 1..Len(ts) : ts[i].bs # <<>> /\ EventShape(ts[i]) = EventShape(ts[1])
cat(parts) ==
    IF /\ Catable([i \in 1..Len(parts) |-> parts[i].log_normalizer], LAMBDA t : <<>>)
       /\ Catable([i \in 1..Len(parts) |-> parts[i].info_vec], LAMBDA t : Last(VecShape(t), 1))
       /\ Catable([i \in 1..Len(parts) |-> parts[i].precision], LAMBDA t : Last(MatShape(t), 2))
       /\ Catable([i \in 1..Len(parts) |-> parts[i].alpha], LAMBDA t : <<>>)
       /\ Catable([i \in 1..Len(parts) |-> parts[i].beta], LAMBDA t : <<>>)
    THEN GaussianGamma(TensorCat([i \in 1..Len(parts) |-> parts[i].log_normalizer]),
                       TensorCat([i \in 1..Len(parts) |-> parts[i].info_vec]),
                       TensorCat([i \in 1..Len(parts) |-> parts[i].precision]),
                       TensorCat([i \in 1..Len(parts) |-> parts[i].alpha]),
                       TensorCat([i \in 1..Len(parts) |-> parts[i].beta]))
    ELSE Raise("RuntimeError")

\* a bug that would pad precision on its last axis only
event_pad_last_axis(self, left, right) ==
    LET info_vec  == Map1(LAMBDA v : PadVec(v, left, right), self.info_vec)
        precision == Map1(LAMBDA M : PadMat(M, left, right, 0, 0), self.precision)
    IN  GaussianGamma(self.log_normalizer, info_vec, precision, self.alpha, self.beta)

\* a bug that would pad precision's columns by (right, left)
event_pad_swapped(self, left, right) ==
    LET info_vec  == Map1(LAMBDA v : PadVec(v, left, right), self.info_vec)
        precision == Map1(LAMBDA M : PadMat(M, right, left, left, right), self.precision)
    IN  GaussianGamma(self.log_normalizer, info_vec, precision, self.alpha, self.beta)

event_pad(self, left, right) ==
    LET info_vec  == Map1(LAMBDA v : PadVec(v, left, right), self.info_vec)
        precision == Map1(LAMBDA M : PadMat(M, left, right, left, right), self.precision)
    IN  GaussianGamma(self.log_normalizer, info_vec, precision, self.alpha, self.beta)

\* perm holds 0-based positions, as a torch index tensor does
PermIdx(perm) == [i \in 1..Len(perm) |-> perm[i] + 1]
\* a bug that would permute precision's columns and leave its rows
event_permute_columns(self, perm) ==
    IF Len(perm) # dim(self) THEN Raise("AssertionError")
    ELSE LET info_vec  == Map1(LAMBDA v : VecTake(v, PermIdx(perm)), self.info_vec)
             precision == Map1(LAMBDA M : MatTake(M, All(M.r), PermIdx(perm)), self.precision)
         IN  GaussianGamma(self.log_normalizer, info_vec, precision, self.alpha, self.beta)

event_permute(self, perm) ==
    IF Len(perm) # dim(self) THEN Raise("AssertionError")
    ELSE LET info_vec  == Map1(LAMBDA v : VecTake(v, PermIdx(perm)), self.info_vec)
             cols      == Map1(LAMBDA M : MatTake(M, All(M.r), PermIdx(perm)), self.precision)
             precision == Map1(LAMBDA M : MatTake(M, PermIdx(perm), All(M.c)), cols)
         IN  GaussianGamma(self.log_normalizer, info_vec, precision, self.alpha, self.beta)

\* a bug that would keep the receiver's alpha
add_keeps_alpha(self, other) ==
    IF dim(self) # dim(other) THEN Raise("AssertionError")
    ELSE GaussianGamma(Map2(FAdd, self.log_normalizer, other.log_normalizer),
                       Map2(VecAdd, self.info_vec, other.info_vec),
                       Map2(MatAdd, self.precision, other.precision),
                       self.alpha,
                       Map2(RAdd, self.beta, other.beta))

add(self, other) ==
    IF dim(self) # dim(other) THEN Raise("AssertionError")
    ELSE GaussianGamma(Map2(FAdd, self.log_normalizer, other.log_normalizer),
                       Map2(VecAdd, self.info_vec, other.info_vec),
                       Map2(MatAdd, self.precision, other.precision),
                       Map2(RAdd, self.alpha, other.alpha),
                       Map2(RAdd, self.beta, other.beta))

\* a bug that would evaluate the empty-value case at Gamma's own exponent
log_density_empty_unshifted(self, value, s) ==
    LET a1 == Map1(LAMBDA a : RSub(a, One), self.alpha)
        t1 == Map2(FScale, a1, Map1(Log, s))
        t2 == Map1(Form, Map2(RMul, self.beta, s))
        ln == TensorExpand(self.log_normalizer, broadcast_shape(value.bs, batch_shape(self)))
    IN  Map2(FAdd, Map2(FSub, t1, t2), ln)

\* the value.size(-1) == 0 case
log_density_empty(self, value, s) ==
    LET t1 == Map2(FScale, self.alpha, Map1(Log, s))
        t2 == Map1(Form, Map2(RMul, self.beta, s))
        ln == TensorExpand(self.log_normalizer, broadcast_shape(value.bs, batch_shape(self)))
    IN  Map2(FAdd, Map2(FSub, t1, t2), ln)

log_density(self, value, s) ==
    IF Len(value.at[1]) = 0
    THEN Ok("Tensor", log_density_empty(self, value, s))
    \* matmul of an n x n precision with a value of another length
    ELSE IF self.precision.at[1].c # Len(value.at[1])
    THEN Raise("RuntimeError")
    ELSE Ok("Tensor",
            LET r1 == Map1(LAMBDA v : VecScale(RNeg(Half), v), Map2(MatVec, self.precision, value))
                r2 == Map2(VecAdd, r1, self.info_vec)
                r3 == Map1(RSum, Map2(VecMul, value, r2))
                t1 == Map2(FScale, self.alpha, Map1(Log, s))
                t2 == Map1(Form, Map2(RMul, Map2(RSub, r3, self.beta), s))
            IN  Map2(FAdd, Map2(FAdd, t1, t2), self.log_normalizer))

\* a bug that would add P_ab value to info_a instead of subtracting it
condition_info_sign(self, value) ==
    IF Len(value.at[1]) > dim(self) THEN Raise("AssertionError")
    ELSE LET n      == dim(self) - Len(value.at[1])
             a      == Slice(<<>>, <<n>>, dim(self))
             b      == Slice(<<n>>, <<>>, dim(self))
             info_a == Map1(LAMBDA v : VecTake(v, a), self.info_vec)
             info_b == Map1(LAMBDA v : VecTake(v, b), self.info_vec)
             P_aa   == Map1(LAMBDA M : MatTake(M, a, a), self.precision)
             P_ab   == Map1(LAMBDA M : MatTake(M, a, b), self.precision)
             P_bb   == Map1(LAMBDA M : MatTake(M, b, b), self.precision)
             info_vec == Map2(VecAdd, info_a, Map2(MatVec, P_ab, value))
             quad   == Map1(RSum, Map2(VecMul, Map2(MatVec, P_bb, value), value))
             lin    == Map1(RSum, Map2(VecMul, value, info_b))
             beta   == Map2(RAdd, Map2(RSub, self.beta, Map1(LAMBDA x : RMul(Half, x), quad)), lin)
         IN  GaussianGamma(self.log_normalizer, info_vec, P_aa, self.alpha, beta)

condition(self, value) ==
    IF Len(value.at[1]) > dim(self) THEN Raise("AssertionError")
    ELSE LET n      == dim(self) - Len(value.at[1])
             a      == Slice(<<>>, <<n>>, dim(self))
             b      == Slice(<<n>>, <<>>, dim(self))
             info_a == Map1(LAMBDA v : VecTake(v, a), self.info_vec)
             info_b == Map1(LAMBDA v : VecTake(v, b), self.info_vec)
             P_aa   == Map1(LAMBDA M : MatTake(M, a, a), self.precision)
             P_ab   == Map1(LAMBDA M : MatTake(M, a, b), self.precision)
             P_bb   == Map1(LAMBDA M : MatTake(M, b, b), self.precision)
             info_vec == Map2(VecSub, info_a, Map2(MatVec, P_ab, value))
             quad   == Map1(RSum, Map2(VecMul, Map2(MatVec, P_bb, value), value))
             lin    == Map1(RSum, Map2(VecMul, value, info_b))
             beta   == Map2(RAdd, Map2(RSub, self.beta, Map1(LAMBDA x : RMul(Half, x), quad)), lin)
         IN  GaussianGamma(self.log_normalizer, info_vec, P_aa, self.alpha, beta)

\* Tensor.cholesky(): the lower factor, read from the lower triangle.
\* Entry (i, j), j <= i, of the factor of M.
RECURSIVE CholAt(_, _, _)
CholAt(M, i, j) ==
    LET acc == RSum([k \in 1..(j - 1) |-> RootMul(CholAt(M, i, k), CholAt(M, j, k))])
    IN  IF i = j THEN Sqrt(RSub(At(M, i, i), acc))
        ELSE RootDiv(RootOf(RSub(At(M, i, j), acc)), CholAt(M, j, j))

\* the i-th pivot, whose square root is the diagonal entry
Pivot(M, i) == RSub(At(M, i, i), RSum([k \in 1..(i - 1) |-> RootPow2(CholAt(M, i, k))]))

\* the factorisation succeeds when every pivot in turn is positive
RECURSIVE Factorable(_, _)
Factorable(M, i) == i = 0 \/ (Factorable(M, i - 1) /\ RPos(Pivot(M, i)))

cholesky(M) == [i \in 1..M.r |-> [j \in 1..i |-> CholAt(M, i, j)]]
CholOk(t) == \A i \in 1..Len(t.at) : Factorable(t.at[i], t.at[i].r)

\* c.unsqueeze(-1).triangular_solve(L, upper=False).solution.squeeze(-1)
RECURSIVE SolveUpTo(_, _, _)
SolveUpTo(L, c, i) ==
    IF i = 0 THEN <<>>
    ELSE LET w   == SolveUpTo(L, c, i - 1)
             acc == RSum([k \in 1..(i - 1) |-> RootMul(L[i][k], w[k])])
         IN  Append(w, RootDiv(RootOf(RSub(c[i], acc)), L[i][i]))
triangular_solve(c, L) == SolveUpTo(L, c, Len(L))

Column(M, j) == [i \in 1..M.r |-> At(M, i, j)]
\* sum(log(diag(L)))
LogDiagSum(L) == FSum([i \in 1..Len(L) |-> RootLog(L[i][i])])
\* w.pow(2).sum(-1)
Pow2Sum(w) == RSum([i \in 1..Len(w) |-> RootPow2(w[i])])

\* marginalize past its two early exits: one side's block is integrated out
marginalize_block(self, left, right) ==
         LET n    == dim(self)
             n_b  == left + right
             a    == Slice(<<left>>, <<n - right>>, n)
             b    == IF left # 0 THEN Slice(<<>>, <<left>>, n) ELSE Slice(<<n - right>>, <<>>, n)
             P_aa == Map1(LAMBDA M : MatTake(M, a, a), self.precision)
             P_ba == Map1(LAMBDA M : MatTake(M, b, a), self.precision)
             P_bb == Map1(LAMBDA M : MatTake(M, b, b), self.precision)
             P_b  == Map1(cholesky, P_bb)
             \* P_a, by columns: column j solves P_b x = P_ba[:, j]
             P_a  == Map2(LAMBDA M, L : [j \in 1..M.c |-> triangular_solve(Column(M, j), L)], P_ba, P_b)
             PtP  == Map1(LAMBDA X : Mat(Len(X), Len(X),
                            [i \in 1..Len(X) |-> [j \in 1..Len(X) |->
                                RSum([k \in 1..Len(X[i]) |-> RootMul(X[i][k], X[j][k])])]]), P_a)
             precision == Map2(LAMBDA A, B : MatAdd(A, Mat(B.r, B.c,
                            [i \in 1..B.r |-> [j \in 1..B.c |-> RNeg(At(B, i, j))]])), P_aa, PtP)
             info_a == Map1(LAMBDA v : VecTake(v, a), self.info_vec)
             info_b == Map1(LAMBDA v : VecTake(v, b), self.info_vec)
             b_tmp  == Map2(triangular_solve, info_b, P_b)
             Ptb    == Map2(LAMBDA X, w : [i \in 1..Len(X) |->
                            RSum([k \in 1..Len(w) |-> RootMul(X[i][k], w[k])])], P_a, b_tmp)
             info_vec == Map2(VecSub, info_a, Ptb)
             log_normalizer ==
                 Map2(FAdd,
                      Map2(FSub,
                           Map1(LAMBDA f : FAdd(f, FScale(RMul(Half, Q(n_b)), Log2Pi)), self.log_normalizer),
                           Map1(LogDiagSum, P_b)),
                      Map1(LAMBDA w : Form(RMul(Half, Pow2Sum(w))), b_tmp))
         IN  IF ~CholOk(P_bb) THEN Raise("RuntimeError")
             \* GaussianGamma(log_normalizer, info_vec, precision): __init__ takes
             \* alpha and beta too and gives them no defaults
             ELSE Raise("TypeError")

\* a bug that would drop the two-sided check
marginalize_unchecked(self, left, right) ==
    IF left = 0 /\ right = 0 THEN Ok("GaussianGamma", self)
    ELSE marginalize_block(self, left, right)

marginalize(self, left, right) ==
    IF left = 0 /\ right = 0 THEN Ok("GaussianGamma", self)
    ELSE IF left > 0 /\ right > 0 THEN Raise("NotImplementedError")
    ELSE marginalize_block(self, left, right)

\* a bug that would leave out the + 1 of the shift
event_logsumexp_no_plus_one(self) ==
    LET n        == dim(self)
        chol_P   == Map1(cholesky, self.precision)
        chol_P_u == Map2(triangular_solve, self.info_vec, chol_P)
        u_P_u    == Map1(Pow2Sum, chol_P_u)
        alpha    == Map1(LAMBDA x : RSub(x, RMul(Half, Q(n))), self.alpha)
        beta     == Map2(LAMBDA x, u : RSub(x, RMul(Half, u)), self.beta, u_P_u)
        log_normalizer_tmp ==
            Map1(LAMBDA L : FSub(FScale(RMul(Half, Q(n)), Log2Pi), LogDiagSum(L)), chol_P)
    IN  IF ~CholOk(self.precision) THEN Raise("RuntimeError")
        ELSE Ok("Gamma", Gamma(Map2(FAdd, self.log_normalizer, log_normalizer_tmp), alpha, beta))

event_logsumexp(self) ==
    LET n        == dim(self)
        chol_P   == Map1(cholesky, self.precision)
        chol_P_u == Map2(triangular_solve, self.info_vec, chol_P)
        u_P_u    == Map1(Pow2Sum, chol_P_u)
        alpha    == Map1(LAMBDA x : RAdd(RSub(x, RMul(Half, Q(n))), One), self.alpha)
        beta     == Map2(LAMBDA x, u : RSub(x, RMul(Half, u)), self.beta, u_P_u)
        log_normalizer_tmp ==
            Map1(LAMBDA L : FSub(FScale(RMul(Half, Q(n)), Log2Pi), LogDiagSum(L)), chol_P)
    IN  IF ~CholOk(self.precision) THEN Raise("RuntimeError")
        ELSE Ok("Gamma", Gamma(Map2(FAdd, self.log_normalizer, log_normalizer_tmp), alpha, beta))

(***************************************************************************)
(* The instances and arguments callers supply.                             *)
(***************************************************************************)
\* an n x n precision with diagonal d, d+1, ..., u above it and l below it
PrecisionOf(n, d, u, l) ==
    Mat(n, n, [i \in 1..n |-> [j \in 1..n |->
        IF i = j THEN Q(d + i - 1) ELSE IF i < j THEN Q(u) ELSE Q(l)]])
InfoOf(n, b) == [i \in 1..n |-> Q(b * i)]

Instance(n, d, u, l, b, ln, al, be) ==
    GaussianGamma(T0(Form(ln)), T0(InfoOf(n, b)), T0(PrecisionOf(n, d, u, l)), T0(al), T0(be)).v

OffDiagonals == {<<0, 0>>, <<1, 1>>, <<-1, -1>>, <<1, 0>>, <<0, -1>>}
Instances ==
    {Instance(n, d, ul[1], ul[2], b, Zero, al, be) :
        n \in 0..MaxDim, d \in {0, 2}, ul \in OffDiagonals, b \in {0, 1},
        al \in {<<3, 2>>, Q(2)}, be \in {Half, One}}
\* a batch of two different instances of one dimension
Batched ==
    {cat(<<expand(Instance(n, 2, 1, 1, 1, Zero, <<3, 2>>, Half), <<1>>).v,
           expand(Instance(n, 2, -1, -1, 0, Zero, Q(2), One), <<1>>).v>>).v : n \in 0..MaxDim}
SeedInstances == {Instance(n, 2, 1, 1, 1, Zero, <<3, 2>>, Half) : n \in 0..MaxDim}
Others == {Instance(n, 1, 1, 1, 1, One, One, One) : n \in 0..MaxDim}

XVals == {Q(-1), Q(2)}
Values == UNION {[1..k -> XVals] : k \in 0..MaxDim}
SVals == {One, Q(2), <<2, 3>>}
BatchShapes == {<<>>, <<1>>, <<2>>}
Indices == {<<>>, <<0>>, <<1>>, <<-1>>}
Perms(n) == [1..n -> 0..(n - 1)] \cup {<<>>}

(***************************************************************************)
(* The state: g is the instance the caller holds; op, recv, args and out   *)
(* record the last call, its receiver, its arguments and what it returned  *)
(* or raised; fuel is the number of calls still to make.                   *)
(***************************************************************************)
NoCall == Raise("none")

Start(insts, calls) ==
    /\ g \in insts
    /\ op = "init"
    /\ recv = g
    /\ args = <<>>
    /\ out = NoCall
    /\ fuel = calls

\* one call on an instance a caller built
Init == Start(Instances \cup Batched, 1)
\* a sequence of calls, each on the instance the previous one returned
InitSeq == Start(SeedInstances, MaxSteps)

Call(name, a, result) ==
    /\ fuel > 0
    /\ fuel' = fuel - 1
    /\ op' = name
    /\ recv' = g
    /\ args' = a
    /\ out' = result
    /\ g' = IF IsGG(result) THEN result.v ELSE g

Expand ==
    \E shape \in BatchShapes : Call("expand", [batch_shape |-> shape], expand(g, shape))

GetItem ==
    \E index \in Indices : Call("getitem", [index |-> index], getitem(g, index))

EventPad ==
    \E left \in 0..MaxDim, right \in 0..MaxDim :
        /\ dim(g) + left + right <= MaxDim
        /\ Call("event_pad", [left |-> left, right |-> right], event_pad(g, left, right))

EventPermute ==
    \E perm \in Perms(dim(g)) : Call("event_permute", [perm |-> perm], event_permute(g, perm))

Add ==
    \E other \in Others : Call("add", [other |-> other], add(g, other))

LogDensity ==
    \E value \in {v \in Values : Len(v) \in {0, dim(g), dim(g) + 1}}, s \in SVals :
        Call("log_density", [value |-> value, s |-> s], log_density(g, T0(value), T0(s)))

Condition ==
    \E value \in Values : Call("condition", [value |-> value], condition(g, T0(value)))

Marginalize ==
    \E left \in 0..MaxDim, right \in 0..MaxDim :
        Call("marginalize", [left |-> left, right |-> right], marginalize(g, left, right))

EventLogsumexp ==
    Call("event_logsumexp", <<>>, event_logsumexp(g))

Next ==
    \/ Expand
    \/ GetItem
    \/ EventPad
    \/ EventPermute
    \/ Add
    \/ LogDensity
    \/ Condition
    \/ Marginalize
    \/ EventLogsumexp

Spec == Init /\ [][Next]_vars
SpecSeq == InitSeq /\ [][Next]_vars

(***************************************************************************)
(* Properties.                                                             *)
(***************************************************************************)
Vectors(n) == [1..n -> XVals]
Density(self, x, s) == log_density(self, T0(x), T0(s))
Evaluated(o) == o.kind = "Tensor"
Batch(self) == 1..Numel(batch_shape(self))

Symmetric(self) ==
    \A e \in 1..Len(self.precision.at) :
        LET M == self.precision.at[e]
        IN  \A i \in 1..M.r, j \in 1..M.c : At(M, i, j) = At(M, j, i)

IsPermutation(perm, n) ==
    Len(perm) = n /\ \A k \in 0..(n - 1) : \E i \in 1..n : perm[i] = k

\* C1: conditioning decomposition.  For a receiver with symmetric precision
\* and a value of length k <= n, condition(value) returns an instance whose
\* log_density at (left, s) equals the receiver's at (concat(left, value), s),
\* for every left of length n - k and every s.
ConditionDecomposition ==
    (op = "condition" /\ Len(args.value) <= dim(recv) /\ Symmetric(recv)) =>
        /\ IsGG(out)
        /\ \A left \in Vectors(dim(recv) - Len(args.value)), s \in SVals :
              /\ Evaluated(Density(recv, left \o args.value, s))
              /\ Density(recv, left \o args.value, s) = Density(out.v, left, s)

ConditionDecompositionWitness ==
    /\ op = "condition"
    /\ Symmetric(recv)
    /\ dim(recv) = 2
    /\ Len(args.value) = 1
    /\ At(recv.precision.at[1], 1, 2) # Zero
    /\ IsGG(out)

\* C2 as stated: a 0-dimensional receiver's log_density(empty, s) equals
\* Gamma(log_normalizer, alpha, beta).log_density(s).
DegenerateEqualsGammaSameScalars ==
    (op = "log_density" /\ dim(recv) = 0 /\ args.value = <<>>) =>
        /\ Evaluated(out)
        /\ out.v = Gamma_log_density(Gamma(recv.log_normalizer, recv.alpha, recv.beta), T0(args.s))

\* C2 amended: a 0-dimensional receiver's log_density(empty, s) equals
\* Gamma(log_normalizer, alpha + 1, beta).log_density(s): the receiver's
\* alpha is Gamma's shape less 1 when dim() is 0.
DegenerateEqualsGammaShifted ==
    (op = "log_density" /\ dim(recv) = 0 /\ args.value = <<>>) =>
        /\ Evaluated(out)
        /\ out.v = Gamma_log_density(
                       Gamma(recv.log_normalizer, Map1(LAMBDA a : RAdd(a, One), recv.alpha), recv.beta),
                       T0(args.s))

DegenerateWitness ==
    /\ op = "log_density"
    /\ dim(recv) = 0
    /\ args.value = <<>>
    /\ args.s # One
    /\ Evaluated(out)

\* the block marginalize(left, right) integrates out, one side only
MarginalizedBlock(self, left, right) ==
    LET n == dim(self)
        b == IF left > 0 THEN [i \in 1..left |-> i] ELSE [i \in 1..right |-> n - right + i]
    IN  Map1(LAMBDA M : MatTake(M, b, b), self.precision)

OneSided(left, right, n) ==
    /\ (left > 0) # (right > 0)
    /\ left + right <= n

\* C3: marginalize(left, right) with exactly one side positive, left + right
\* <= n and a positive-definite marginalized block returns a GaussianGamma of
\* dimension n - left - right with the receiver's alpha and beta.
MarginalizeOneSidedReturns ==
    (/\ op = "marginalize"
     /\ OneSided(args.left, args.right, dim(recv))
     /\ Symmetric(recv)
     /\ CholOk(MarginalizedBlock(recv, args.left, args.right))) =>
        /\ IsGG(out)
        /\ dim(out.v) = dim(recv) - args.left - args.right
        /\ out.v.alpha = recv.alpha
        /\ out.v.beta = recv.beta

\* C4: marginalize(left, right) with both sides positive raises
\* NotImplementedError, returns no instance and leaves the receiver as it was.
MarginalizeTwoSidedRejected ==
    (op = "marginalize" /\ args.left > 0 /\ args.right > 0) =>
        /\ out = Raise("NotImplementedError")
        /\ g = recv

MarginalizeTwoSidedWitness ==
    /\ op = "marginalize"
    /\ args.left > 0
    /\ args.right > 0
    /\ args.left + args.right <= dim(recv)
    /\ CholOk(recv.precision)
    /\ out.kind = "NotImplementedError"

\* C5: g1 + g2 of equal dim() is an instance whose log_density at every
\* (x, s) is the sum of the operands'; with different dim() the addition
\* fails and returns no instance.
AddMultipliesDensities ==
    (op = "add") =>
        IF dim(recv) = dim(args.other)
        THEN /\ IsGG(out)
             /\ \A x \in Vectors(dim(recv)), s \in SVals :
                   /\ Evaluated(Density(out.v, x, s))
                   /\ Density(out.v, x, s).v =
                          Map2(FAdd, Density(recv, x, s).v, Density(args.other, x, s).v)
        ELSE out = Raise("AssertionError") /\ g = recv

AddWitness ==
    /\ op = "add"
    /\ dim(recv) = 2
    /\ dim(args.other) = 2
    /\ IsGG(out)

AddRejectedWitness ==
    /\ op = "add"
    /\ dim(recv) # dim(args.other)
    /\ out.kind = "AssertionError"

\* C6: for a permutation perm of 0..n-1, event_permute(perm) returns an
\* instance whose log_density at (x[perm], s) is the receiver's at (x, s);
\* its precision is the receiver's with rows and columns both taken by perm,
\* and log_normalizer, alpha and beta are the receiver's.
EventPermuteRelabels ==
    (op = "event_permute" /\ IsPermutation(args.perm, dim(recv))) =>
        /\ IsGG(out)
        /\ out.v.log_normalizer = recv.log_normalizer
        /\ out.v.alpha = recv.alpha
        /\ out.v.beta = recv.beta
        /\ \A e \in 1..Len(recv.precision.at), i \in 1..dim(recv), j \in 1..dim(recv) :
              At(out.v.precision.at[e], i, j) =
                  At(recv.precision.at[e], args.perm[i] + 1, args.perm[j] + 1)
        /\ \A x \in Vectors(dim(recv)), s \in SVals :
              /\ Evaluated(Density(recv, x, s))
              /\ Density(out.v, [i \in 1..dim(recv) |-> x[args.perm[i] + 1]], s) = Density(recv, x, s)

EventPermuteWitness ==
    /\ op = "event_permute"
    /\ dim(recv) = 2
    /\ args.perm = <<1, 0>>
    /\ recv.info_vec.at[1][1] # recv.info_vec.at[1][2]
    /\ IsGG(out)

\* C7: event_pad(left, right) returns an instance of dimension n + left +
\* right with the receiver's log_normalizer, alpha and beta, zeros in every
\* new info_vec entry and precision row and column, and the receiver's
\* log_density whatever the padded coordinates of x hold.
EventPadFrame ==
    (op = "event_pad") =>
        LET n == dim(recv)
            l == args.left
            m == n + args.left + args.right
            New(i) == i <= l \/ i > l + n
        IN  /\ IsGG(out)
            /\ out.v.log_normalizer = recv.log_normalizer
            /\ out.v.alpha = recv.alpha
            /\ out.v.beta = recv.beta
            /\ dim(out.v) = m
            /\ \A e \in 1..Len(out.v.precision.at), i \in 1..m :
                  /\ New(i) => out.v.info_vec.at[e][i] = Zero
                  /\ \A j \in 1..m : (New(i) \/ New(j)) => At(out.v.precision.at[e], i, j) = Zero
            /\ \A xp \in Vectors(m), s \in SVals :
                  /\ Evaluated(Density(out.v, xp, s))
                  /\ Density(out.v, xp, s) = Density(recv, SubSeq(xp, l + 1, l + n), s)

EventPadWitness ==
    /\ op = "event_pad"
    /\ dim(recv) = 1
    /\ args.left = 1
    /\ args.right = 0
    /\ recv.info_vec.at[1][1] # Zero
    /\ IsGG(out)

EventPadZeroWitness ==
    /\ op = "event_pad"
    /\ dim(recv) = 2
    /\ args.left = 0
    /\ args.right = 0
    /\ IsGG(out)

\* the spec's concrete scenario: n = 1, precision = [[2]], info_vec = [0],
\* alpha = 1.5, beta = 0.5, log_normalizer = 0
Scenario == Instance(1, 2, 0, 0, 0, Zero, <<3, 2>>, Half)

\* event_logsumexp's general formula: with precision = L L^T, L lower
\* triangular with a positive diagonal, and L w = info_vec, the result is the
\* Gamma with alpha' = alpha - 0.5*n + 1, beta' = beta - 0.5*sum(w^2) and
\* log_normalizer' = log_normalizer + 0.5*n*log(2*pi) - sum(log(diag(L))).
EventLogsumexpGeneral ==
    (op = "event_logsumexp" /\ Symmetric(recv) /\ CholOk(recv.precision)) =>
        /\ out.kind = "Gamma"
        /\ \A e \in Batch(recv) :
              LET n == dim(recv)
                  P == recv.precision.at[e]
                  L == cholesky(P)
                  w == triangular_solve(recv.info_vec.at[e], L)
              IN  /\ \A i \in 1..n : L[i][i].sg = 1
                  /\ \A i \in 1..n, j \in 1..n :
                        RSum([k \in 1..(IF i < j THEN i ELSE j) |-> RootMul(L[i][k], L[j][k])]) = At(P, i, j)
                  /\ \A i \in 1..n :
                        RSum([k \in 1..i |-> RootMul(L[i][k], w[k])]) = recv.info_vec.at[e][i]
                  /\ out.v.alpha.at[e] = RAdd(RSub(recv.alpha.at[e], <<n, 2>>), One)
                  /\ out.v.beta.at[e] = RSub(recv.beta.at[e], RMul(Half, Pow2Sum(w)))
                  /\ out.v.log_normalizer.at[e] =
                         FSub(FAdd(recv.log_normalizer.at[e], FScale(<<n, 2>>, Log2Pi)), LogDiagSum(L))

\* C8 as stated: the general formula, and in the scenario alpha' = 1.0 and
\* beta' = 0.5.
EventLogsumexpAsStated ==
    /\ EventLogsumexpGeneral
    /\ (op = "event_logsumexp" /\ recv = Scenario) =>
          /\ out.kind = "Gamma"
          /\ out.v.alpha = T0(One)
          /\ out.v.beta = T0(Half)

\* C8 amended: the general formula, and in the scenario alpha' = 2.0 (that is
\* 1.5 - 0.5*1 + 1), beta' = 0.5 and log_normalizer' = 0.5*log(2*pi) -
\* 0.5*log(2).
EventLogsumexpAmended ==
    /\ EventLogsumexpGeneral
    /\ (op = "event_logsumexp" /\ recv = Scenario) =>
          /\ out.kind = "Gamma"
          /\ out.v.alpha = T0(Q(2))
          /\ out.v.beta = T0(Half)
          /\ out.v.log_normalizer = T0(FSub(FScale(Half, Log2Pi), FScale(Half, Log(Q(2)))))

EventLogsumexpWitness ==
    /\ op = "event_logsumexp"
    /\ recv = Scenario
    /\ out.kind = "Gamma"

EventLogsumexpGeneralWitness ==
    /\ op = "event_logsumexp"
    /\ dim(recv) = 2
    /\ Symmetric(recv)
    /\ At(recv.precision.at[1], 2, 1) # Zero
    /\ recv.info_vec.at[1][1] # Zero
    /\ out.kind = "Gamma"

ConditionRejectedWitness ==
    /\ op = "condition"
    /\ Len(args.value) > dim(recv)
    /\ out.kind = "AssertionError"

\* every tensor of the instance has the event shape dim() asks for
Conformant(self) ==
    /\ \A e \in 1..Len(self.info_vec.at) : Len(self.info_vec.at[e]) = dim(self)
    /\ \A e \in 1..Len(self.precision.at) :
          LET M == self.precision.at[e]
          IN  /\ M.r = dim(self)
              /\ M.c = dim(self)
              /\ Len(M.m) = M.r
              /\ \A i \in 1..M.r : Len(M.m[i]) = M.c

\* C10: along any sequence of event_pad, event_permute, +, condition, expand
\* and batch indexing from a conformant instance, every instance held or
\* returned has a dim() x dim() precision matching info_vec, and each call
\* that the arguments allow returns an instance of dimension n + left + right
\* (event_pad), n - k (condition on a length-k value) or n (the others).
ShapeConformance ==
    /\ Conformant(g)
    /\ IsGG(out) => (Conformant(out.v) /\ g = out.v)
    /\ op = "event_pad" => (IsGG(out) /\ dim(out.v) = dim(recv) + args.left + args.right)
    /\ (op = "condition" /\ Len(args.value) <= dim(recv)) =>
          (IsGG(out) /\ dim(out.v) = dim(recv) - Len(args.value))
    /\ (op = "event_permute" /\ Len(args.perm) = dim(recv)) => (IsGG(out) /\ dim(out.v) = dim(recv))
    /\ (op = "add" /\ dim(args.other) = dim(recv)) => (IsGG(out) /\ dim(out.v) = dim(recv))
    /\ (op = "expand" /\ Expandable(batch_shape(recv), args.batch_shape)) =>
          (IsGG(out) /\ dim(out.v) = dim(recv) /\ batch_shape(out.v) = args.batch_shape)
    /\ (op = "getitem" /\ Indexable(batch_shape(recv), args.index)) =>
          (IsGG(out) /\ dim(out.v) = dim(recv))

\* a second call in a row: a condition on the batch an expand returned
ShapeConformanceWitness ==
    /\ op = "condition"
    /\ fuel = 0
    /\ batch_shape(recv) = <<2>>
    /\ dim(recv) = 2
    /\ Len(args.value) = 1
    /\ IsGG(out)
    /\ batch_shape(g) = <<2>>
    /\ dim(g) = 1

====
